---- MODULE Spec2Model ----
(***************************************************************************)
(* Model of the Go status checker (src/main.go): the retention store, the  *)
(* check cycle (probe with retries, roster reconciliation, append, chat     *)
(* notification, chat-title update) and the driver loop with its prune.     *)
(*                                                                          *)
(* checkServer is one synchronous function; the model cuts it only at its   *)
(* blocking calls, whose outcome the environment chooses (the probe, the    *)
(* retry sleep, the two HTTP calls).  Everything the code does between two  *)
(* such calls is one action.                                                *)
(*                                                                          *)
(* Not modelled: the StatusEntry ID (time.Now().UnixNano(), never read),    *)
(* the text of log lines and the text layout of the chat message (the       *)
(* message is carried as the pair of name lists it is formatted from).      *)
(* saveStore's write may fail (the code logs the error and goes on);        *)
(* status.json is read back only by init(), and the model has no restart.   *)
(*                                                                          *)
(* Specifications:                                                          *)
(*   Spec        main's loop from a first start (empty store)               *)
(*   SpecStore   the prune and the read of the latest entry on a store as   *)
(*               init() may load it                                         *)
(*   SpecCodec   writeVarInt and readVarInt on their own                    *)
(*   SpecPing    one call of pingMinecraftServer, byte by byte              *)
(*   SpecConvex  the Convex store's insert and cleanupOld                   *)
(*               (src/convex/status.ts)                                     *)
(*   SpecLive    Spec with the progress of checkServer's sequential steps   *)
(*   SpecCycles  a sequence of whole check cycles and prunes                *)
(***************************************************************************)
EXTENDS Integers, Sequences, FiniteSets, TLC

\* ---------------------------------------------------------------- bounds
\* Check cycles the driver starts in one run of the model.
MaxCycles == 2
\* Most bytes a source holds when readVarInt is called on it.
MaxWire == 6
\* Most documents one lastChecked value has beyond what one cleanupOld
\* invocation of the Convex store can delete.
MaxBeyond == 1
\* Documents inserted into the Convex table in one run of the model.
MaxInserts == 1
\* Most entries a status.json holds when init() loads it.
MaxLoaded == 3
\* Check cycles in one run of the model of cycles in sequence.
MaxRun == 3
\* Waits on the tickers during which the clock advances, in one run.
MaxTicks == 1
\* Largest players.online a probe reports.
MaxCount == 1
\* Longest players.sample a probe reports.
MaxSampleLen == 2

\* Player names a server reports; "" is the empty name the code drops.
Names == {"a", "b"}
SampleNames == Names \cup {""}

\* ------------------------------------------------------------- constants
MAX_RETRIES == 3
\* CHECK_INTERVAL, in whole seconds.
CHECK_INTERVAL == 30
\* CLEANUP_INTERVAL, in whole seconds.
CLEANUP_INTERVAL == 24 * 60 * 60
ONE_DAY_IN_MS == 24 * 60 * 60 * 1000
\* src/convex/status.ts
CLEANUP_BATCH_SIZE == 100
MAX_BATCHES_PER_INVOCATION == 30

\* A nil pointer (*StatusEntry, *ServerStatus).
Nil == [nil |-> TRUE]

VARIABLES
    store,               \* store.Entries
    file,                \* the entries status.json holds
    now,                 \* time.Now().Unix(), as last sampled
    pc,                  \* where the driver / checkServer stands
    attempt,             \* checkServer: the loop variable
    latest,              \* checkServer: latest
    statusResponse,      \* checkServer: statusResponse
    online,              \* checkServer: online
    currentPlayers,      \* checkServer: currentPlayers
    playerDataReliable,  \* checkServer: playerDataReliable
    joinedPlayers,       \* checkServer: joinedPlayers
    leftPlayers,         \* checkServer: leftPlayers
    trace,               \* what the running cycle has done so far, in order
    nCycles,             \* history: check cycles started
    nCompleted,          \* history: check cycles that returned
    nPruned,             \* history: entries removed by cleanupOld
    nTicks,              \* history: clock advances
    codec,               \* a writeVarInt / readVarInt call looked at alone
    ping,                \* a pingMinecraftServer call looked at alone
    convex,              \* the Convex deployment's status table and clock
    hist                 \* history: what the check cycles so far read and announced

\* The parts of the repository that the run of main's loop leaves aside: its
\* probe is an outcome the environment chooses (PingOutcomes), and the Convex
\* functions are not part of the Go program.  Each has a specification of
\* its own below.  So has the history of a sequence of whole check cycles.
aside == <<codec, ping, convex, hist>>

\* The state of main's loop.
loop == <<store, file, now, pc, attempt, latest, statusResponse, online,
          currentPlayers, playerDataReliable, joinedPlayers, leftPlayers,
          trace, nCycles, nCompleted, nPruned, nTicks>>

vars == <<loop, aside>>

locals == <<attempt, latest, statusResponse, online, currentPlayers,
            playerDataReliable, joinedPlayers, leftPlayers>>

\* The locals still read after reconciliation; statusResponse is not, and the
\* model forgets it when the notification step is left.
afterReconcile == <<attempt, latest, online, currentPlayers,
                    playerDataReliable, joinedPlayers, leftPlayers>>

\* ------------------------------------------------------------ sequences
SeqsUpTo(S, n) == UNION {[1..k -> S] : k \in 0..n}

Range(s) == {s[i] : i \in 1..Len(s)}

\* The elements of s that are not in drop, in s's order.
RECURSIVE Without(_, _)
Without(s, drop) ==
    IF Len(s) = 0 THEN <<>>
    ELSE IF Head(s) \notin drop
         THEN <<Head(s)>> \o Without(Tail(s), drop)
         ELSE Without(Tail(s), drop)

\* ---------------------------------------------------------------- store
\* One StatusEntry (without its ID).
Entry(on, lastChecked, players) ==
    [Online |-> on, LastChecked |-> lastChecked, Players |-> players]

\* getLatest's loop over entries[i..], holding the best entry so far: a later
\* entry replaces it only with a strictly greater LastChecked.
RECURSIVE LatestFrom(_, _, _)
LatestFrom(entries, i, best) ==
    IF i > Len(entries) THEN best
    ELSE LatestFrom(entries, i + 1,
                    IF entries[i].LastChecked > best.LastChecked
                    THEN entries[i] ELSE best)

\* Mutant: the entry appended last is taken for the latest.
getLatestAppended(entries) ==
    IF Len(entries) = 0 THEN Nil ELSE entries[Len(entries)]

getLatest(entries) ==
    IF Len(entries) = 0 THEN Nil ELSE LatestFrom(entries, 1, entries[1])

\* Mutant: only online observations are recorded.
insertStatusOnlineOnly(entries, on, lastChecked, players) ==
    IF on THEN Append(entries, Entry(on, lastChecked, players)) ELSE entries

insertStatus(entries, on, lastChecked, players) ==
    Append(entries, Entry(on, lastChecked, players))

\* What status.json holds after saveStore, as loadStore would read it back:
\* the entries of the store; or, when ioutil.WriteFile fails (the error is
\* logged and nothing else is done), what it held before, or nothing (the
\* file was truncated before the write failed).
saveStore(entries, written) == {entries, written, <<>>}

\* The entries cleanupOld keeps, entries[i..] onwards, in order.
RECURSIVE KeepFrom(_, _, _)
KeepFrom(entries, i, cutoff) ==
    IF i > Len(entries) THEN <<>>
    ELSE IF entries[i].LastChecked >= cutoff
         THEN <<entries[i]>> \o KeepFrom(entries, i + 1, cutoff)
         ELSE KeepFrom(entries, i + 1, cutoff)

\* Mutant: an entry exactly at the cutoff is dropped too.
cleanupOldStrict(entries, nowSec) ==
    KeepFrom(entries, 1, nowSec * 1000 - ONE_DAY_IN_MS + 1)

cleanupOld(entries, nowSec) ==
    KeepFrom(entries, 1, nowSec * 1000 - ONE_DAY_IN_MS)

\* -------------------------------------------------------- reconciliation
\* What a probe attempt returns: an error (Nil), or a ServerStatus (it never
\* returns neither, and it may not return at all: see PingPanic).  The count
\* is int(players.online), 0 when the field is absent, and a server may send a
\* negative number; Players is empty when players.sample is absent or empty.
ServerStatus(count, players) ==
    [Online |-> TRUE, PlayerCount |-> count, Players |-> players]

PingOutcomes ==
    {Nil} \cup {ServerStatus(c, p) :
                   c \in (-1)..MaxCount, p \in SeqsUpTo(SampleNames, MaxSampleLen)}

\* previousPlayers: the roster of the latest entry, empty when there is none.
PreviousPlayers(l) == IF l = Nil THEN <<>> ELSE l.Players

\* Mutant: online means that the server answered.
OnlineVerdictReachable(sr) == sr.Online

\* online, for a probe that succeeded.
OnlineVerdict(sr) == sr.PlayerCount > 0

\* Mutant: every name of the sample is taken over as it comes.
DedupFromUnfiltered(names, acc) == acc \o names

\* The loop over statusResponse.Players: non-empty names, each once, in the
\* order of first occurrence.
RECURSIVE DedupFrom(_, _)
DedupFrom(names, acc) ==
    IF Len(names) = 0 THEN acc
    ELSE DedupFrom(Tail(names),
                   IF Head(names) # "" /\ Head(names) \notin Range(acc)
                   THEN Append(acc, Head(names)) ELSE acc)

\* Mutant: empty names are dropped, repeated names are kept.
DedupNamesKeepRepeats(names) == Without(names, {""})

DedupNames(names) == DedupFrom(names, <<>>)

\* currentPlayers and playerDataReliable after the named-sample step.
NamedSample(previousPlayers, sr) ==
    IF Len(sr.Players) > 0
    THEN [players |-> DedupNames(sr.Players),
          reliable |-> Len(DedupNames(sr.Players)) > 0]
    ELSE [players |-> previousPlayers, reliable |-> FALSE]

\* Mutant: the previous roster is kept whole.
TruncateRosterKeepAll(previousPlayers, playerCount) == previousPlayers

\* The roster kept for a positive count without names.
TruncateRoster(previousPlayers, playerCount) ==
    IF Len(previousPlayers) > playerCount
    THEN SubSeq(previousPlayers, 1, playerCount)
    ELSE previousPlayers

\* Mutant: a count of 0 is handled like any other count.
CountFallbackNoZeroCase(cur, previousPlayers, playerCount) ==
    IF playerCount >= 0
    THEN [players |-> TruncateRoster(previousPlayers, playerCount),
          reliable |-> FALSE]
    ELSE [players |-> cur, reliable |-> FALSE]

\* The count-based fallback, taken when the named-sample step left the data
\* unreliable; cur is currentPlayers as that step left it.
CountFallback(cur, previousPlayers, playerCount) ==
    IF playerCount = 0
    THEN [players |-> <<>>, reliable |-> TRUE]
    ELSE IF playerCount >= 0
         THEN [players |-> TruncateRoster(previousPlayers, playerCount),
               reliable |-> FALSE]
         ELSE [players |-> cur, reliable |-> FALSE]

\* The branch for a successful probe.
ReachableSample(previousPlayers, sr) ==
    LET named == NamedSample(previousPlayers, sr) IN
    IF named.reliable THEN named
    ELSE CountFallback(named.players, previousPlayers, sr.PlayerCount)

\* Mutant: an unreachable server always counts as reliable data.
NullSampleAlwaysReliable(previousPlayers) ==
    [players |-> <<>>, reliable |-> TRUE]

\* The branch for statusResponse = nil.
NullSample(previousPlayers) ==
    [players |-> <<>>, reliable |-> Len(previousPlayers) > 0]

\* Mutant: every current player is reported as joined.
ComputeJoinedAll(reliable, cur, previousPlayers) ==
    IF reliable THEN cur ELSE <<>>

\* joinedPlayers: the current players missing from previousPlayerSet.
ComputeJoined(reliable, cur, previousPlayers) ==
    IF reliable THEN Without(cur, Range(previousPlayers)) ELSE <<>>

\* Mutant: the diff is computed whether or not the data is reliable.
ComputeLeftUnguarded(reliable, cur, previousPlayers) ==
    Without(previousPlayers, Range(cur))

\* leftPlayers: the previous players missing from currentPlayerSet.
ComputeLeft(reliable, cur, previousPlayers) ==
    IF reliable THEN Without(previousPlayers, Range(cur)) ELSE <<>>

\* Mutant: reliable data is notified even when nothing changed.
ShouldNotifyWhenReliable(reliable, joined, left) == reliable

\* The guard of the notification block.
ShouldNotify(reliable, joined, left) ==
    reliable /\ (Len(joined) > 0 \/ Len(left) > 0)

\* Mutant: the two titles are swapped.
ChatTitleSwapped(on) == IF on THEN "red" ELSE "green"

\* The chat title: the green one when online, else the red one.
ChatTitle(on) == IF on THEN "green" ELSE "red"

\* Mutant: the loop sleeps after the last attempt too.
RetryAgainAfterLast(att) == att <= MAX_RETRIES

\* Whether the loop sleeps and tries again after a failed attempt.
RetryAgain(att) == att < MAX_RETRIES

\* The wall clock is read in two places, for an appended entry's LastChecked
\* and for cleanupOld's cutoff.  The model advances it in one place, while main
\* waits on its tickers, by a cleanup period or by one second more; the time a
\* cycle itself takes (probes, sleeps, HTTP calls) is not added.  Two readings
\* with no advance between them are two cycles within the same second: a check
\* tick was already pending when the previous cycle returned.
TickSteps == {CLEANUP_INTERVAL, CLEANUP_INTERVAL + 1}

\* ------------------------------------------------------ trace of a cycle
PingEvent(ok) == [op |-> "pingMinecraftServer", ok |-> ok]
LogEvent(msg) == [op |-> "log", msg |-> msg]
\* An attempt that did not return.
PanicEvent == [op |-> "pingMinecraftServer", ok |-> FALSE, panic |-> TRUE]
SleepEvent == [op |-> "sleep"]
InsertEvent == [op |-> "insertStatus"]
MessageEvent(joined, left, ok) ==
    [op |-> "sendTelegramMessage", joined |-> joined, left |-> left, ok |-> ok]
TitleEvent(title, ok) == [op |-> "updateChatTitle", title |-> title, ok |-> ok]

\* The events of the trace tr whose op is o, in order.
RECURSIVE EventsOf(_, _)
EventsOf(tr, o) ==
    IF Len(tr) = 0 THEN <<>>
    ELSE IF Head(tr).op = o
         THEN <<Head(tr)>> \o EventsOf(Tail(tr), o)
         ELSE EventsOf(Tail(tr), o)

\* ------------------------------------------------------------------ Init
\* The state after init() on a first run (no status.json): an empty store.
\* main() runs the first check before it creates its tickers.
InitMain ==
    /\ store = <<>>
    /\ file = <<>>
    /\ now = 0
    /\ pc = "boot"
    /\ attempt = 0
    /\ latest = Nil
    /\ statusResponse = Nil
    /\ online = FALSE
    /\ currentPlayers = <<>>
    /\ playerDataReliable = FALSE
    /\ joinedPlayers = <<>>
    /\ leftPlayers = <<>>
    /\ trace = <<>>
    /\ nCycles = 0
    /\ nCompleted = 0
    /\ nPruned = 0
    /\ nTicks = 0

Init ==
    /\ InitMain
    /\ codec = Nil
    /\ ping = Nil
    /\ convex = Nil
    /\ hist = Nil

\* ---------------------------------------------------------- checkServer
\* The retry loop is entered again: the next attempt is due.
LoopAgain(tr) ==
    /\ pc' = "probe"
    /\ trace' = tr
    /\ UNCHANGED <<store, file, online, currentPlayers, playerDataReliable,
                   joinedPlayers, leftPlayers>>

\* The code after the retry loop up to saveStore: reconcile the probe result
\* sr with the previous roster, append the Observation, save the store.
Reconcile(sr, tr) ==
    LET previousPlayers == PreviousPlayers(latest)
        r == IF sr # Nil THEN ReachableSample(previousPlayers, sr)
             ELSE NullSample(previousPlayers)
        on == IF sr # Nil THEN OnlineVerdict(sr) ELSE FALSE
    IN  /\ online' = on
        /\ currentPlayers' = r.players
        /\ playerDataReliable' = r.reliable
        /\ joinedPlayers' = ComputeJoined(r.reliable, r.players, previousPlayers)
        /\ leftPlayers' = ComputeLeft(r.reliable, r.players, previousPlayers)
        /\ store' = insertStatus(store, on, now * 1000, r.players)
        /\ file' \in saveStore(store', file)
        /\ trace' = Append(tr, InsertEvent)
        /\ pc' = "notify"

\* Mutant: the loop starts over after a failed attempt and never gives up.
NextIterationForever(att, tr) ==
    /\ attempt' = 1
    /\ LoopAgain(<<>>)

\* The loop's increment and condition, after a failed attempt att: once the
\* loop variable passes MAX_RETRIES, the code goes on with a nil response.
NextIteration(att, tr) ==
    /\ attempt' = att + 1
    /\ IF att + 1 <= MAX_RETRIES THEN LoopAgain(tr) ELSE Reconcile(Nil, tr)

\* A ticker fires (or main makes its first call): checkServer reads the latest
\* entry and enters the retry loop.
StartCheck ==
    /\ pc \in {"boot", "idle"}
    /\ nCycles < MaxCycles
    /\ nCycles' = nCycles + 1
    /\ latest' = getLatest(store)
    /\ attempt' = 1
    /\ pc' = "probe"
    /\ trace' = <<>>
    /\ UNCHANGED <<store, file, now, statusResponse, online, currentPlayers,
                   playerDataReliable, joinedPlayers, leftPlayers,
                   nCompleted, nPruned, nTicks>>
    /\ UNCHANGED aside

\* A probe attempt succeeds: the loop breaks and the cycle reconciles.
PingOk ==
    /\ pc = "probe"
    /\ \E sr \in PingOutcomes \ {Nil} :
          /\ statusResponse' = sr
          /\ Reconcile(sr, Append(trace, PingEvent(TRUE)))
    /\ UNCHANGED <<now, attempt, latest, nCycles, nCompleted, nPruned, nTicks>>
    /\ UNCHANGED aside

\* A probe attempt panics: the status packet's JSON length varint decodes to a
\* negative int32 and make([]byte, jsonLen) panics.  Nothing recovers it, the
\* process dies inside the cycle.
PingPanic ==
    /\ pc = "probe"
    /\ pc' = "crashed"
    /\ trace' = Append(trace, PanicEvent)
    /\ UNCHANGED <<store, file, now, locals, nCycles, nCompleted, nPruned, nTicks>>
    /\ UNCHANGED aside

\* A probe attempt fails and another is allowed: log, then sleep.
PingFailRetry ==
    /\ pc = "probe"
    /\ RetryAgain(attempt)
    /\ statusResponse' = Nil
    /\ trace' = trace \o <<PingEvent(FALSE), LogEvent("attempt failed, retrying")>>
    /\ pc' = "sleep"
    /\ UNCHANGED <<store, file, now, attempt, latest, online, currentPlayers,
                   playerDataReliable, joinedPlayers, leftPlayers,
                   nCycles, nCompleted, nPruned, nTicks>>
    /\ UNCHANGED aside

\* A probe attempt fails and no sleep follows: log, then the loop's increment.
PingFailLast ==
    /\ pc = "probe"
    /\ ~RetryAgain(attempt)
    /\ statusResponse' = Nil
    /\ NextIteration(attempt,
                     trace \o <<PingEvent(FALSE), LogEvent("check failed")>>)
    /\ UNCHANGED <<now, latest, nCycles, nCompleted, nPruned, nTicks>>
    /\ UNCHANGED aside

\* time.Sleep(RETRY_DELAY) returns and the loop goes on.
Sleep ==
    /\ pc = "sleep"
    /\ NextIteration(attempt, Append(trace, SleepEvent))
    /\ UNCHANGED <<now, latest, statusResponse,
                   nCycles, nCompleted, nPruned, nTicks>>
    /\ UNCHANGED aside

\* The notification block is entered: sendTelegramMessage succeeds or fails,
\* a failure is logged.
SendMessage ==
    /\ pc = "notify"
    /\ ShouldNotify(playerDataReliable, joinedPlayers, leftPlayers)
    /\ \E ok \in BOOLEAN :
          trace' = trace \o <<MessageEvent(joinedPlayers, leftPlayers, ok)>>
                         \o (IF ok THEN <<>>
                             ELSE <<LogEvent("error sending message")>>)
    /\ pc' = "title"
    /\ statusResponse' = Nil
    /\ UNCHANGED <<store, file, now, afterReconcile,
                   nCycles, nCompleted, nPruned, nTicks>>
    /\ UNCHANGED aside

\* The notification block is skipped.
SkipMessage ==
    /\ pc = "notify"
    /\ ~ShouldNotify(playerDataReliable, joinedPlayers, leftPlayers)
    /\ pc' = "title"
    /\ statusResponse' = Nil
    /\ UNCHANGED <<store, file, now, afterReconcile, trace,
                   nCycles, nCompleted, nPruned, nTicks>>
    /\ UNCHANGED aside

\* updateChatTitle succeeds or fails, a failure is logged.
UpdateTitle ==
    /\ pc = "title"
    /\ \E ok \in BOOLEAN :
          trace' = trace \o <<TitleEvent(ChatTitle(online), ok)>>
                         \o (IF ok THEN <<>>
                             ELSE <<LogEvent("error updating chat title")>>)
    /\ pc' = "done"
    /\ UNCHANGED <<store, file, now, locals, nCycles, nCompleted, nPruned, nTicks>>
    /\ UNCHANGED aside

\* checkServer logs the status and returns to main's loop; its locals die.
Return ==
    /\ pc = "done"
    /\ pc' = "idle"
    /\ nCompleted' = nCompleted + 1
    /\ attempt' = 0
    /\ latest' = Nil
    /\ statusResponse' = Nil
    /\ online' = FALSE
    /\ currentPlayers' = <<>>
    /\ playerDataReliable' = FALSE
    /\ joinedPlayers' = <<>>
    /\ leftPlayers' = <<>>
    /\ trace' = <<>>
    /\ UNCHANGED <<store, file, now, nCycles, nPruned, nTicks>>
    /\ UNCHANGED aside

\* ----------------------------------------------------------------- main
\* Mutant: the prune has a thread of its own and runs whenever its ticker
\* fires, a check cycle in progress or not.
CleanupOnOwnThread ==
    /\ pc # "crashed"
    /\ store' = cleanupOld(store, now)
    /\ file' \in saveStore(store', file)
    /\ nPruned' = nPruned + (Len(store) - Len(store'))
    /\ UNCHANGED <<now, pc, locals, trace, nCycles, nCompleted, nTicks>>
    /\ UNCHANGED aside

\* The cleanup ticker fires: cleanupOld, then saveStore.
Cleanup ==
    /\ pc = "idle"
    /\ store' = cleanupOld(store, now)
    /\ file' \in saveStore(store', file)
    /\ nPruned' = nPruned + (Len(store) - Len(store'))
    /\ UNCHANGED <<now, pc, locals, trace, nCycles, nCompleted, nTicks>>
    /\ UNCHANGED aside

\* Time passes while main waits on its tickers.
Tick ==
    /\ pc = "idle"
    /\ nTicks < MaxTicks
    /\ \E d \in TickSteps : now' = now + d
    /\ nTicks' = nTicks + 1
    /\ UNCHANGED <<store, file, pc, locals, trace, nCycles, nCompleted, nPruned>>
    /\ UNCHANGED aside

Next ==
    \/ StartCheck
    \/ PingOk
    \/ PingPanic
    \/ PingFailRetry
    \/ PingFailLast
    \/ Sleep
    \/ SendMessage
    \/ SkipMessage
    \/ UpdateTitle
    \/ Return
    \/ Cleanup
    \/ Tick

Spec == Init /\ [][Next]_vars

\* checkServer is sequential code on main's only goroutine: once a blocking
\* call has returned, the code up to the next one runs.  That a call returns
\* is an assumption on the environment: a probe attempt is bounded by TIMEOUT
\* (dial timeout and connection deadline), time.Sleep by RETRY_DELAY, and the
\* two HTTP calls are taken to come back.  Nothing obliges a ticker to fire
\* again, or the clock to advance.
CycleProgress ==
    /\ WF_vars(PingOk \/ PingFailRetry \/ PingFailLast)
    /\ WF_vars(Sleep)
    /\ WF_vars(SendMessage \/ SkipMessage)
    /\ WF_vars(UpdateTitle)
    /\ WF_vars(Return)

SpecLive == Init /\ [][Next]_vars /\ CycleProgress

\* ------------------------------------------------------ a loaded store
\* init() on a later run loads whatever status.json holds.  The entries were
\* stamped by the wall clock, which can be set back between two appends, so a
\* loaded store is in any timestamp order.  LastChecked values lie one second
\* apart, around the cutoffs of the clock readings below.
LoadedTimes == {0, 1000, 2000}
LoadedRosters == {<<>>, <<"a">>}
LoadedEntries ==
    {Entry(Len(p) > 0, t, p) : t \in LoadedTimes, p \in LoadedRosters}
LoadedStores == SeqsUpTo(LoadedEntries, MaxLoaded)
LoadedClock == {CLEANUP_INTERVAL, CLEANUP_INTERVAL + 1, CLEANUP_INTERVAL + 2}

\* main waits on its tickers with a loaded store in memory and on disk.
InitStore ==
    /\ store \in LoadedStores
    /\ file = store
    /\ now \in LoadedClock
    /\ pc = "idle"
    /\ attempt = 0
    /\ latest = Nil
    /\ statusResponse = Nil
    /\ online = FALSE
    /\ currentPlayers = <<>>
    /\ playerDataReliable = FALSE
    /\ joinedPlayers = <<>>
    /\ leftPlayers = <<>>
    /\ trace = <<>>
    /\ nCycles = 0
    /\ nCompleted = 0
    /\ nPruned = 0
    /\ nTicks = 0
    /\ codec = Nil
    /\ ping = Nil
    /\ convex = Nil
    /\ hist = Nil

\* The two store operations main's loop starts from there: the prune, and the
\* read of the latest entry that opens a check cycle.
NextStore ==
    \/ Cleanup
    \/ StartCheck

SpecStore == InitStore /\ [][NextStore]_vars

\* ======================================================================
\* The varint codec (writeVarInt, readVarInt)
\* ======================================================================
\* Bytes are 0..255 and an int32 is an integer of -2^31 .. 2^31-1; every
\* intermediate value below stays within that range.
MinInt32 == -2147483647 - 1
MaxInt32 == 2147483647

\* value & 0x7F, for either sign (two's complement).
Low7(value) == value % 128

\* int32(uint32(value) >> 7): for a negative value, uint32(value) is
\* (value - MinInt32) + 2^31, and 2^31 >> 7 is 2^24.
ShiftRight7(value) ==
    IF value >= 0 THEN value \div 128
    ELSE (value - MinInt32) \div 128 + 16777216

\* Mutant: the value is written as its low byte alone.
writeVarIntOneByte(value) == <<value % 256>>

\* The bytes writeVarInt appends to buf: 7-bit groups, low group first, the
\* continuation bit on every byte but the last.
RECURSIVE writeVarInt(_)
writeVarInt(value) ==
    IF value >= 0 /\ value < 128
    THEN <<value>>
    ELSE <<Low7(value) + 128>> \o writeVarInt(ShiftRight7(value))

\* int32(group) << shift, for a group of 0..127: bits pushed past bit 31 are
\* lost, bit 31 is the sign, and a shift of 32 or more leaves 0.
ShiftLeft32(group, shift) ==
    IF shift >= 32 THEN 0
    ELSE IF shift <= 24 THEN group * 2^shift
    ELSE LET below == 2^(31 - shift) IN
         (group % below) * 2^shift
             + (IF (group \div below) % 2 = 1 THEN MinInt32 ELSE 0)

\* result |= group: result has no bit at or above the shift and group none
\* below it, so the bitwise or is their sum.
Or32(result, group) == result + group

\* The readers pingMinecraftServer passes to readVarInt.
Readers == {"buffer", "conn"}

\* One pass of readVarInt's switch: the next byte of the source src, of which
\* pos bytes are consumed.  src is what the reader yields before it fails: a
\* buffer's unread bytes (then io.EOF), or the bytes a connection delivers
\* before it is closed or its deadline passes.
ReadOneByte(reader, src, pos) ==
    IF reader = "buffer"
    THEN IF pos < Len(src)
         THEN [b |-> src[pos + 1], err |-> "", n |-> 1]
         ELSE [b |-> 0, err |-> "EOF", n |-> 0]
    ELSE IF reader = "conn"
    THEN LET data == IF pos < Len(src) THEN <<src[pos + 1]>> ELSE <<0>> IN
         [b |-> data[1],
          err |-> IF pos < Len(src) THEN "" ELSE "read failed",
          n |-> IF pos < Len(src) THEN 1 ELSE 0]
    ELSE [b |-> 0, err |-> "unsupported reader type", n |-> 0]

\* Mutant: the length guard lets a tenth group through.
VarIntTooLongAt64(shift) == shift >= 64

\* The guard after shift += 7.
VarIntTooLong(shift) == shift >= 32

\* readVarInt's loop, with pos bytes consumed so far.
RECURSIVE ReadVarIntLoop(_, _, _, _, _)
ReadVarIntLoop(reader, src, pos, result, shift) ==
    LET rd == ReadOneByte(reader, src, pos) IN
    IF rd.err # ""
    THEN [value |-> 0, err |-> rd.err, consumed |-> pos + rd.n]
    ELSE LET r == Or32(result, ShiftLeft32(rd.b % 128, shift)) IN
         IF rd.b < 128
         THEN [value |-> r, err |-> "", consumed |-> pos + 1]
         ELSE IF VarIntTooLong(shift + 7)
              THEN [value |-> 0, err |-> "varint too long", consumed |-> pos + 1]
              ELSE ReadVarIntLoop(reader, src, pos + 1, r, shift + 7)

\* readVarInt: the value, the error ("" for nil) and how many bytes of the
\* source the call consumed.
readVarInt(reader, src) == ReadVarIntLoop(reader, src, 0, 0, 0)

\* ---------------------------------------------- the codec, called alone
\* Values written: the least and the greatest value of each encoded length,
\* and the protocol version and packet ids the probe writes.
VarintValues ==
    {0, 1, 47, 127, 128, 255, 16383, 16384, 70000, 2097151, 2097152,
     268435455, 268435456, MaxInt32}

\* Bytes of the sources read: with and without the continuation bit, with
\* all, some and none of the group bits.
WireBytes == {0, 15, 127, 128, 255}

\* A call of writeVarInt on an empty buffer is due (whose bytes, followed by
\* what the peer sends next, will be read back), or a call of readVarInt on a
\* source with the given bytes (written = 0: nothing was written here).
CodecInputs ==
    {[step |-> "write", reader |-> r, value |-> v, written |-> 0,
      src |-> rest, out |-> Nil] :
        r \in Readers, v \in VarintValues, rest \in SeqsUpTo({255}, 1)}
    \cup
    {[step |-> "read", reader |-> r, value |-> 0, written |-> 0,
      src |-> bytes, out |-> Nil] :
        r \in Readers, bytes \in SeqsUpTo(WireBytes, MaxWire)}

InitCodec ==
    /\ InitMain
    /\ codec \in CodecInputs
    /\ ping = Nil
    /\ convex = Nil
    /\ hist = Nil

\* writeVarInt(buf, value) on an empty buffer; the bytes go to the reader's
\* source, ahead of what follows them there.
CallWriteVarInt ==
    /\ codec.step = "write"
    /\ LET bytes == writeVarInt(codec.value) IN
       codec' = [codec EXCEPT !.step = "read",
                              !.written = Len(bytes),
                              !.src = bytes \o codec.src]
    /\ UNCHANGED <<loop, ping, convex, hist>>

\* readVarInt(reader) on the source.
CallReadVarInt ==
    /\ codec.step = "read"
    /\ codec' = [codec EXCEPT !.step = "done",
                              !.out = readVarInt(codec.reader, codec.src)]
    /\ UNCHANGED <<loop, ping, convex, hist>>

NextCodec ==
    \/ CallWriteVarInt
    \/ CallReadVarInt

SpecCodec == InitCodec /\ [][NextCodec]_vars

\* ======================================================================
\* The probe (pingMinecraftServer)
\* ======================================================================
\* A decoded JSON value, as encoding/json hands it over in an interface{}:
\* nil, a string, a float64 (here the fraction num/den), a []interface{} or a
\* map[string]interface{}.
JNull == [t |-> "null"]
JStr(str) == [t |-> "string", v |-> str]
JNum(num, den) == [t |-> "number", num |-> num, den |-> den]
JArr(elems) == [t |-> "array", v |-> elems]
JObj(fields) == [t |-> "object", v |-> fields]

\* m[key] of a map value; nil for a missing key and for a nil map.
Get(m, key) ==
    IF m.t = "object" /\ key \in DOMAIN m.v THEN m.v[key] ELSE JNull

\* int(f) of a float64: the fraction is cut off, towards zero.
TruncToInt(json) ==
    IF json.num >= 0 THEN json.num \div json.den
    ELSE -((-json.num) \div json.den)

\* The status documents a server is taken to send.  With a version name: a
\* count and two player objects; a count alone; no players object; a count
\* that is a string and a sample with a repeated name, an empty name and
\* entries without a usable name; a negative count and an empty sample; a
\* count with a fraction.  Without one: no version, an empty version name, a
\* version that is a string.  Then the document null and an array.  Last,
\* with a version name again: no count, and a sample without a usable name.
Docs ==
    LET v == JObj([name |-> JStr("1.20")])
        pl(nm) == JObj([name |-> JStr(nm)])
    IN << JObj([version |-> v,
                players |-> JObj([online |-> JNum(2, 1),
                                  sample |-> JArr(<<pl("a"), pl("b")>>)])]),
          JObj([version |-> v, players |-> JObj([online |-> JNum(1, 1)])]),
          JObj([version |-> v]),
          JObj([version |-> v,
                players |-> JObj([online |-> JStr("3"),
                                  sample |-> JArr(<<pl("a"), JStr("b"), pl(""),
                                                    JObj([name |-> JNum(7, 1)]),
                                                    pl("a")>>)])]),
          JObj([version |-> v,
                players |-> JObj([online |-> JNum(-1, 1),
                                  sample |-> JArr(<<>>)])]),
          JObj([version |-> v, players |-> JObj([online |-> JNum(-3, 2)])]),
          JObj([players |-> JObj([online |-> JNum(1, 1)])]),
          JObj([version |-> JObj([name |-> JStr("")])]),
          JObj([version |-> JStr("1.20")]),
          JNull,
          JArr(<<>>),
          JObj([version |-> v,
                players |-> JObj([sample |-> JArr(<<pl(""), JStr("b")>>)])]) >>

\* The JSON text of document i, three bytes long: the braces and between them
\* one byte that stands for the content.  No other byte string is JSON.
DocBytes(i) == <<123, i, 125>>

\* json.Unmarshal(jsonData, &statusJSON): an error for a text that is not
\* JSON and for a document that is neither an object nor null.
Unmarshal(jsonData) ==
    IF \E i \in 1..Len(Docs) :
           jsonData = DocBytes(i) /\ Docs[i].t \in {"object", "null"}
    THEN [err |-> "",
          statusJSON |-> Docs[CHOOSE i \in 1..Len(Docs) : jsonData = DocBytes(i)]]
    ELSE [err |-> "failed to parse JSON response", statusJSON |-> JNull]

\* The names of the sample's entries that are objects with a string name.
RECURSIVE SampleNamesOf(_)
SampleNamesOf(sample) ==
    IF Len(sample) = 0 THEN <<>>
    ELSE LET name == Get(Head(sample), "name") IN
         (IF name.t = "string" THEN <<name.v>> ELSE <<>>)
             \o SampleNamesOf(Tail(sample))

\* Mutant: a document without a count is not taken for a count of 0.
StatusOfUnknownCount(statusJSON) ==
    LET version == Get(statusJSON, "version")
        versionName == Get(version, "name")
        players == Get(statusJSON, "players")
        count == Get(players, "online")
        sample == Get(players, "sample")
    IN  IF version.t # "object" \/ versionName.t # "string" \/ versionName.v = ""
        THEN [status |-> Nil, err |-> "invalid server response"]
        ELSE [status |->
                  ServerStatus(
                      IF count.t = "number" THEN TruncToInt(count) ELSE -1,
                      IF sample.t = "array" THEN SampleNamesOf(sample.v)
                      ELSE <<>>),
              err |-> ""]

\* What pingMinecraftServer returns for a decoded document: (nil, error) or
\* (status, nil).  Players left nil and Players empty are both <<>>.
StatusOf(statusJSON) ==
    LET version == Get(statusJSON, "version")
        versionName == Get(version, "name")
        players == Get(statusJSON, "players")
        count == Get(players, "online")
        sample == Get(players, "sample")
    IN  IF version.t # "object"
        THEN [status |-> Nil, err |-> "missing version field"]
        ELSE IF versionName.t # "string" \/ versionName.v = ""
        THEN [status |-> Nil, err |-> "missing or empty version name"]
        ELSE [status |->
                  ServerStatus(
                      IF count.t = "number" THEN TruncToInt(count) ELSE 0,
                      IF sample.t = "array" THEN SampleNamesOf(sample.v)
                      ELSE <<>>),
              err |-> ""]

\* n zero bytes: what make([]byte, n) holds.
Zeros(n) == [k \in 1..n |-> 0]

Min(a, b) == IF a <= b THEN a ELSE b

\* responseBuf.Read(jsonData) on the unread bytes rest: jsonData afterwards,
\* and io.EOF when the buffer is empty and jsonData is not.
BufferRead(rest, jsonLen) ==
    IF Len(rest) = 0
    THEN [jsonData |-> Zeros(jsonLen),
          err |-> IF jsonLen = 0 THEN "" ELSE "EOF"]
    ELSE LET n == Min(jsonLen, Len(rest)) IN
         [jsonData |-> SubSeq(rest, 1, n) \o Zeros(jsonLen - n), err |-> ""]

\* The code from bytes.NewBuffer(responseData) to the return: the packet id
\* and the JSON length are read as varints, the JSON text is copied out,
\* decoded and turned into a status.  make([]byte, jsonLen) panics on a
\* negative length.
ParseBody(responseData) ==
    LET id == readVarInt("buffer", responseData)
        afterId == SubSeq(responseData, id.consumed + 1, Len(responseData))
        jsonLen == readVarInt("buffer", afterId)
        afterLen == SubSeq(afterId, jsonLen.consumed + 1, Len(afterId))
        failed(err) == [status |-> Nil, err |-> err, panic |-> FALSE]
    IN  IF id.err # "" THEN failed(id.err)
        ELSE IF jsonLen.err # "" THEN failed(jsonLen.err)
        ELSE IF jsonLen.value < 0
        THEN [status |-> Nil, err |-> "", panic |-> TRUE]
        ELSE LET read == BufferRead(afterLen, jsonLen.value)
                 decoded == Unmarshal(read.jsonData)
                 result == StatusOf(decoded.statusJSON)
             IN  IF read.err # "" THEN failed(read.err)
                 ELSE IF decoded.err # "" THEN failed(decoded.err)
                 ELSE [status |-> result.status, err |-> result.err,
                       panic |-> FALSE]

\* Mutant: any positive length is accepted.
ValidResponseLenUnbounded(responseLen) == responseLen > 0

\* The guard on the declared response length.
ValidResponseLen(responseLen) == ~(responseLen <= 0 \/ responseLen > 65535)

\* Mutant: one read is taken for the whole body.
MoreToReadOnce(totalRead, responseLen) == totalRead = 0

\* The condition of the loop that reads the response body.
MoreToRead(totalRead, responseLen) == totalRead < responseLen

\* responseData as the loop has filled it: responseLen bytes, of which the
\* first totalRead were read (filled) and the others are still zero.
ResponseData(filled, responseLen) ==
    filled \o Zeros(responseLen - Len(filled))

\* ---------------------------------------------- the probe, called alone
\* JSON lengths a status packet declares for its three-byte text: negative,
\* zero, one short, right, one long.
JsonLens == {-1, 0, 2, 3, 4}

\* Response bodies: packet id 0, the JSON length, the JSON text; and bodies
\* that stop inside or right after one of the two varints.
Bodies ==
    {<<0>> \o writeVarInt(j) \o DocBytes(i) :
         i \in 1..Len(Docs), j \in JsonLens}
    \cup {<<128>>, <<0>>, <<0, 128>>, <<0, 0>>, <<0, 3>>}

\* Lengths a response declares ahead of its body: the body's length, one
\* less, one more, and lengths at and beyond the two ends of the valid range.
DeclaredLens(body) ==
    {Len(body) - 1, Len(body), Len(body) + 1, -1, 0, 65535, 65536, 70000}

\* What the server sends after the status request, up to where it stops
\* (it closes the connection, or stays silent until the deadline): a declared
\* length and a body; a rightly declared body cut at any byte; or less than a
\* length.
Streams ==
    UNION {{writeVarInt(n) \o body : n \in DeclaredLens(body)}
           \cup {writeVarInt(Len(body)) \o SubSeq(body, 1, k) :
                     k \in 0..Len(body)} : body \in Bodies}
    \cup {<<>>, <<128>>, <<255, 255, 255, 255, 255, 0>>}

\* pingMinecraftServer is called: nothing is read yet.
\*   wire          the stream the server will send
\*   rd            how many of its bytes the calls of conn.Read have taken
\*   responseLen   responseLen
\*   totalRead     totalRead
\*   filled        responseData[:totalRead]
\*   reads         how many times the body loop has called conn.Read
\*   status, err   the return values, once pc = "returned"
PingInputs ==
    {[pc |-> "connect", wire |-> w, rd |-> 0, responseLen |-> 0,
      totalRead |-> 0, filled |-> <<>>, reads |-> 0, status |-> Nil,
      err |-> ""] :
        w \in Streams}

InitPing ==
    /\ InitMain
    /\ codec = Nil
    /\ ping \in PingInputs
    /\ convex = Nil
    /\ hist = Nil

\* return nil, err
PingFails(err) == [ping EXCEPT !.pc = "returned", !.status = Nil, !.err = err]

\* The dial and the two writes (handshake, status request): each succeeds or
\* the call returns its error.
PingConnect ==
    /\ ping.pc = "connect"
    /\ \E ok \in BOOLEAN :
          ping' = IF ok THEN [ping EXCEPT !.pc = "length"]
                  ELSE PingFails("dial or write failed")
    /\ UNCHANGED <<loop, codec, convex, hist>>

\* readVarInt(conn) for the response length, the guard on it, and the
\* allocation of responseData.
PingReadLength ==
    /\ ping.pc = "length"
    /\ LET len == readVarInt("conn", ping.wire) IN
       ping' = IF len.err # ""
               THEN [PingFails("failed to read response length")
                        EXCEPT !.rd = len.consumed]
               ELSE IF ~ValidResponseLen(len.value)
               THEN [PingFails("invalid response length")
                        EXCEPT !.rd = len.consumed, !.responseLen = len.value]
               ELSE [ping EXCEPT !.rd = len.consumed,
                                 !.responseLen = len.value,
                                 !.pc = IF MoreToRead(0, len.value)
                                        THEN "body" ELSE "parse"]
    /\ UNCHANGED <<loop, codec, convex, hist>>

\* One conn.Read(responseData[totalRead:]) of the loop: the transport hands
\* over some of the bytes still to come, at least one and no more than fit;
\* when none is to come, the read fails and the call returns the error.
PingReadBody ==
    /\ ping.pc = "body"
    /\ IF ping.rd = Len(ping.wire)
       THEN ping' = [PingFails("failed to read response data")
                        EXCEPT !.reads = ping.reads + 1]
       ELSE \E n \in 1..Min(Len(ping.wire) - ping.rd,
                             ping.responseLen - ping.totalRead) :
               ping' = [ping EXCEPT
                          !.filled = SubSeq(ping.filled, 1, ping.totalRead)
                              \o SubSeq(ping.wire, ping.rd + 1, ping.rd + n),
                          !.rd = ping.rd + n,
                          !.totalRead = ping.totalRead + n,
                          !.reads = ping.reads + 1,
                          !.pc = IF MoreToRead(ping.totalRead + n,
                                               ping.responseLen)
                                 THEN "body" ELSE "parse"]
    /\ UNCHANGED <<loop, codec, convex, hist>>

\* The rest of the call, which reads nothing more from the connection: it
\* returns a status or an error, or it panics.
PingParse ==
    /\ ping.pc = "parse"
    /\ LET r == ParseBody(ResponseData(ping.filled, ping.responseLen)) IN
       ping' = IF r.panic THEN [ping EXCEPT !.pc = "panicked"]
               ELSE [ping EXCEPT !.pc = "returned",
                                 !.status = r.status, !.err = r.err]
    /\ UNCHANGED <<loop, codec, convex, hist>>

NextPing ==
    \/ PingConnect
    \/ PingReadLength
    \/ PingReadBody
    \/ PingParse

SpecPing == InitPing /\ [][NextPing]_vars

\* ======================================================================
\* The Convex store (src/convex/status.ts)
\* ======================================================================
\* The status table by its index by_lastChecked: for each lastChecked value,
\* how many documents carry it.  cleanupOld reads no other field.
\*   convex.table     lastChecked -> number of documents
\*   convex.now       Date.now()
\*   convex.runs      history: invocations of cleanupOld
\*   convex.inserted  history: invocations of insert
\* The lastChecked values of the index, in its (ascending) order: two a day
\* or more before the clock's readings, and those readings.
IndexOrder == <<0, 1000, ONE_DAY_IN_MS + 1000, ONE_DAY_IN_MS + 2000>>
ConvexTimes == Range(IndexOrder)

\* One batch: .withIndex("by_lastChecked", q => q.lt("lastChecked", cutoff))
\* .take(n), from place i of the index onwards, and the delete of every
\* document taken.  The table afterwards and the number of documents taken.
RECURSIVE DeleteOldest(_, _, _, _)
DeleteOldest(table, i, cutoff, n) ==
    IF i > Len(IndexOrder) \/ n = 0 \/ ~(IndexOrder[i] < cutoff)
    THEN [table |-> table, taken |-> 0]
    ELSE LET t == IndexOrder[i]
             k == Min(table[t], n)
             rest == DeleteOldest([table EXCEPT ![t] = @ - k], i + 1,
                                  cutoff, n - k)
         IN  [table |-> rest.table, taken |-> k + rest.taken]

\* The condition of cleanupOld's loop over the batches.
BatchesLeft(batch) == batch < MAX_BATCHES_PER_INVOCATION

\* cleanupOld's loop, from batch number batch onwards.
RECURSIVE CleanupLoop(_, _, _)
CleanupLoop(table, cutoff, batch) ==
    IF ~BatchesLeft(batch) THEN table
    ELSE LET oldEntries == DeleteOldest(table, 1, cutoff, CLEANUP_BATCH_SIZE)
         IN  IF oldEntries.taken = 0 THEN table
             ELSE CleanupLoop(oldEntries.table, cutoff, batch + 1)

\* The handler of cleanupOld, one transaction.
ConvexCleanupOld(table, nowMs) ==
    CleanupLoop(table, nowMs - ONE_DAY_IN_MS, 0)

\* Numbers of documents per lastChecked value: none, one, a batch, one more,
\* and around MAX_BATCHES_PER_INVOCATION batches.
TableCounts ==
    {0, 1, CLEANUP_BATCH_SIZE, CLEANUP_BATCH_SIZE + 1,
     CLEANUP_BATCH_SIZE * MAX_BATCHES_PER_INVOCATION - 1}
    \cup {CLEANUP_BATCH_SIZE * MAX_BATCHES_PER_INVOCATION + k :
              k \in 0..MaxBeyond}

\* A deployment that has been running: a table, and a clock a day and a
\* second or two past the oldest lastChecked (a document of a second later
\* is then at the cutoff, or a second before it).
InitConvex ==
    /\ InitMain
    /\ codec = Nil
    /\ ping = Nil
    /\ convex \in {[table |-> tb, now |-> ONE_DAY_IN_MS + d, runs |-> 0,
                     inserted |-> 0] :
                       tb \in [ConvexTimes -> TableCounts], d \in {1000, 2000}}
    /\ hist = Nil

\* The cron job invokes cleanupOld.
ConvexCleanup ==
    /\ convex' = [convex EXCEPT
                     !.table = ConvexCleanupOld(convex.table, convex.now),
                     !.runs = @ + 1]
    /\ convex.runs < 2
    /\ UNCHANGED <<loop, codec, ping, hist>>

\* insert is invoked; its caller passes Date.now() for lastChecked.
ConvexInsert ==
    /\ convex.inserted < MaxInserts
    /\ convex' = [convex EXCEPT !.table[convex.now] = @ + 1,
                                !.inserted = @ + 1]
    /\ UNCHANGED <<loop, codec, ping, hist>>

NextConvex ==
    \/ ConvexCleanup
    \/ ConvexInsert

SpecConvex == InitConvex /\ [][NextConvex]_vars

\* ======================================================================
\* Check cycles in sequence
\* ======================================================================
\* Nothing interleaves with a call of checkServer (main's loop is the only
\* goroutine), and the outcome of its two HTTP calls changes nothing a later
\* cycle reads: here a whole call is one step, so that runs of several
\* cycles can be followed.  hist keeps what the program forgets: the probe
\* result of this cycle and of the one before, the roster the preceding
\* cycle appended, and each name's latest announcement in the chat.

\* Seconds from one cycle's time.Now() to the next one's: CHECK_INTERVAL as a
\* rule, and 0 when a cycle that started late (its ticker value waited in
\* the channel while the cycle before ran long) appends within the second in
\* which the cycle before appended.
CycleGaps == {0, CHECK_INTERVAL}

\* The documents pingMinecraftServer accepts.
CycleDocs == {i \in 1..Len(Docs) : StatusOf(Docs[i]).err = ""}

\* What the retry loop leaves in statusResponse: nil when every attempt
\* failed (doc 0), else the status of the document an attempt received.
CycleResponse(doc) == IF doc = 0 THEN Nil ELSE StatusOf(Docs[doc]).status

\* The roster the last cycle before this one appended.
LastAppended ==
    IF hist # Nil THEN currentPlayers
    ELSE IF Len(store) = 0 THEN <<>> ELSE store[Len(store)].Players

NoAnnouncement == [x \in Names |-> "none"]

\* A first start, or a start on the status.json of a run of more than a day
\* ago (its one entry is older than the retention period).
InitCycles ==
    /\ store \in {<<>>, <<Entry(TRUE, 0, <<"a">>)>>}
    /\ file = store
    /\ now = CLEANUP_INTERVAL + 1
    /\ pc = "boot"
    /\ attempt = 0
    /\ latest = Nil
    /\ statusResponse = Nil
    /\ online = FALSE
    /\ currentPlayers = <<>>
    /\ playerDataReliable = FALSE
    /\ joinedPlayers = <<>>
    /\ leftPlayers = <<>>
    /\ trace = <<>>
    /\ nCycles = 0
    /\ nCompleted = 0
    /\ nPruned = 0
    /\ nTicks = 0
    /\ codec = Nil
    /\ ping = Nil
    /\ convex = Nil
    /\ hist = Nil

\* A call of checkServer that returns, from getLatest to its return.  The
\* first call follows init() at once, on the clock of the start.
CycleReturns ==
    /\ \E d \in (IF pc = "boot" THEN {0} ELSE CycleGaps),
          doc \in {0} \cup CycleDocs :
          LET l == getLatest(store)
              sr == CycleResponse(doc)
              previousPlayers == PreviousPlayers(l)
              r == IF sr # Nil THEN ReachableSample(previousPlayers, sr)
                   ELSE NullSample(previousPlayers)
              on == IF sr # Nil THEN OnlineVerdict(sr) ELSE FALSE
              joined == ComputeJoined(r.reliable, r.players, previousPlayers)
              left == ComputeLeft(r.reliable, r.players, previousPlayers)
              sent == ShouldNotify(r.reliable, joined, left)
              before == IF hist = Nil THEN NoAnnouncement ELSE hist.ann
          IN  /\ now' = now + d
              /\ latest' = l
              /\ online' = on
              /\ currentPlayers' = r.players
              /\ playerDataReliable' = r.reliable
              /\ joinedPlayers' = joined
              /\ leftPlayers' = left
              /\ store' = insertStatus(store, on, now' * 1000, r.players)
              /\ file' \in saveStore(store', file)
              /\ hist' = [doc |-> doc,
                          prevDoc |-> IF hist = Nil THEN -1 ELSE hist.doc,
                          fresh |-> IF hist = Nil THEN Len(store) = 0
                                    ELSE hist.fresh,
                          expected |-> LastAppended,
                          sent |-> sent,
                          annBefore |-> before,
                          ann |-> [x \in Names |->
                                      IF sent /\ x \in Range(joined)
                                      THEN "joined"
                                      ELSE IF sent /\ x \in Range(left)
                                      THEN "left" ELSE before[x]]]
    /\ pc' = "idle"
    /\ nCycles' = nCycles + 1
    /\ nCompleted' = nCompleted + 1
    /\ UNCHANGED <<attempt, statusResponse, trace, nPruned, nTicks>>
    /\ UNCHANGED <<codec, ping, convex>>

\* A call of checkServer in which a probe attempt panics (see PingPanic): the
\* process dies after getLatest, with nothing reconciled or appended.
CyclePanics ==
    /\ pc' = "crashed"
    /\ nCycles' = nCycles + 1
    /\ latest' = getLatest(store)
    /\ trace' = Append(trace, PanicEvent)
    /\ UNCHANGED <<store, file, now, attempt, statusResponse, online,
                   currentPlayers, playerDataReliable, joinedPlayers,
                   leftPlayers, nCompleted, nPruned, nTicks>>
    /\ UNCHANGED aside

\* One call of checkServer.
CheckCycle ==
    /\ pc \in {"boot", "idle"}
    /\ nCompleted < MaxRun
    /\ CycleReturns \/ CyclePanics

NextCycles ==
    \/ CheckCycle
    \/ Cleanup

SpecCycles == InitCycles /\ [][NextCycles]_vars

\* ======================================================================
\* Properties
\* ======================================================================
\* The cycle has passed its append (insertStatus and saveStore have run).
Appended == pc \in {"notify", "title", "done"}

\* The previous roster P of the running cycle.
P == PreviousPlayers(latest)

\* The running cycle's probe attempts, retry sleeps, messages and title
\* updates, each in order.
Pings == EventsOf(trace, "pingMinecraftServer")
Sleeps == EventsOf(trace, "sleep")
Messages == EventsOf(trace, "sendTelegramMessage")
Titles == EventsOf(trace, "updateChatTitle")

\* Every probe attempt of the running cycle failed.
AllPingsFailed == \A i \in 1..Len(Pings) : ~Pings[i].ok

\* The Observation the running cycle appended.
Appendix == store[Len(store)]

\* s without the names in drop, by the library's SelectSeq.
Minus(s, drop) == SelectSeq(s, LAMBDA x : x \notin drop)

\* The place of the first occurrence of x in s.
FirstIndex(s, x) == CHOOSE k \in 1..Len(s) :
                        s[k] = x /\ \A m \in 1..(k - 1) : s[m] # x

\* r lists the non-empty names of names, each once, by first occurrence.
IsDedupOf(r, names) ==
    /\ Range(r) = Range(names) \ {""}
    /\ \A i, j \in 1..Len(r) : i # j => r[i] # r[j]
    /\ \A i, j \in 1..Len(r) :
          i < j => FirstIndex(names, r[i]) < FirstIndex(names, r[j])

\* The probe result carries no usable name.
NoUsableNames(sr) == Range(sr.Players) \subseteq {""}

\* ------------------------------------------------------------------ C1
\* C1: every check cycle appends exactly one Observation, whatever the probe
\* and the notification did: the store holds one entry per completed cycle,
\* less what prunes removed, plus the running cycle's own entry once it has
\* passed its append; so with no prune, n completed cycles leave n entries.
C1_OneAppendPerCycle ==
    /\ Len(store) + nPruned = nCompleted + (IF Appended THEN 1 ELSE 0)
    /\ Len(EventsOf(trace, "insertStatus")) = (IF Appended THEN 1 ELSE 0)
    /\ nPruned = 0 /\ pc = "idle" => Len(store) = nCompleted

\* C1 witness: a second cycle ends after three failed attempts and a failed
\* chat message, and the unpruned store holds two entries.
C1_Witness ==
    /\ pc = "done"
    /\ nCycles = 2
    /\ nPruned = 0
    /\ Len(store) = 2
    /\ Len(Pings) = 3 /\ AllPingsFailed
    /\ Len(Messages) = 1 /\ ~Messages[1].ok

\* ------------------------------------------------------------------ C2
\* C2: a reachable sample with at least one non-empty name gives
\* currentPlayers = its non-empty names, each once, in order of first
\* occurrence, reliable = true, joined = the current names not in P (current
\* order) and left = the names of P not current (P's order).
C2_NamedSample ==
    (pc = "notify" /\ statusResponse # Nil /\ ~NoUsableNames(statusResponse))
    => /\ IsDedupOf(currentPlayers, statusResponse.Players)
       /\ playerDataReliable
       /\ joinedPlayers = Minus(currentPlayers, Range(P))
       /\ leftPlayers = Minus(P, Range(currentPlayers))
       /\ Appendix.Players = currentPlayers

\* C2 witness: previous roster <<a>>, sample <<"", b>>: b joined, a left.
C2_Witness ==
    /\ pc = "notify"
    /\ statusResponse # Nil
    /\ P = <<"a">>
    /\ statusResponse.Players = <<"", "b">>
    /\ currentPlayers = <<"b">>
    /\ joinedPlayers = <<"b">>
    /\ leftPlayers = <<"a">>

\* ------------------------------------------------------------------ C3
\* C3: when every attempt of a cycle failed, the cycle records online = false
\* and an empty roster, and reliable holds exactly when P was non-empty: then
\* all of P is reported as left, and otherwise nothing is reported.
C3_NullSample ==
    (Appended /\ Len(Pings) > 0 /\ AllPingsFailed)
    => /\ ~online
       /\ currentPlayers = <<>>
       /\ Appendix.Online = FALSE /\ Appendix.Players = <<>>
       /\ playerDataReliable <=> (Len(P) > 0)
       /\ joinedPlayers = <<>>
       /\ leftPlayers = P
       /\ Len(P) = 0 => Len(Messages) = 0
       /\ (Len(P) > 0 /\ pc # "notify")
             => Len(Messages) = 1 /\ Messages[1].left = P

\* C3 witness: the server dies with a and b on it; both are reported as left.
C3_Witness ==
    /\ pc = "title"
    /\ AllPingsFailed /\ Len(Pings) = 3
    /\ Len(P) = 2
    /\ playerDataReliable
    /\ Len(Messages) = 1 /\ Messages[1].left = P

\* ------------------------------------------------------------------ C4
\* C4: a reachable sample with a count of 0 and no usable names gives an
\* empty roster, reliable = true, online = false, nobody joined and all of P
\* left, in P's order.
C4_ZeroCount ==
    (pc = "notify" /\ statusResponse # Nil /\ NoUsableNames(statusResponse)
        /\ statusResponse.PlayerCount = 0)
    => /\ currentPlayers = <<>>
       /\ playerDataReliable
       /\ ~online
       /\ joinedPlayers = <<>>
       /\ leftPlayers = P
       /\ Appendix.Players = <<>> /\ Appendix.Online = FALSE

\* C4 witness: count 0 with a and b on the previous roster.
C4_Witness ==
    /\ pc = "notify"
    /\ statusResponse # Nil
    /\ statusResponse.PlayerCount = 0
    /\ NoUsableNames(statusResponse)
    /\ Len(P) = 2
    /\ leftPlayers = P

\* ------------------------------------------------------------------ C5
\* C5: a reachable sample with a count k > 0, no usable names and |P| > k
\* stores the first k names of P, with reliable = false and nobody joined or
\* left.
C5_Truncation ==
    (pc = "notify" /\ statusResponse # Nil /\ NoUsableNames(statusResponse)
        /\ statusResponse.PlayerCount > 0
        /\ Len(P) > statusResponse.PlayerCount)
    => /\ Len(currentPlayers) = statusResponse.PlayerCount
       /\ \A i \in 1..statusResponse.PlayerCount : currentPlayers[i] = P[i]
       /\ Appendix.Players = currentPlayers
       /\ ~playerDataReliable
       /\ joinedPlayers = <<>>
       /\ leftPlayers = <<>>

\* C5 witness: two previous players, a count of 1, the first one is kept.
C5_Witness ==
    /\ pc = "notify"
    /\ statusResponse # Nil
    /\ NoUsableNames(statusResponse)
    /\ statusResponse.PlayerCount = 1
    /\ Len(P) = 2
    /\ currentPlayers = <<P[1]>>
    /\ Appendix.Players = <<P[1]>>

\* ------------------------------------------------------------------ C6
\* C6: in a cycle whose data is unreliable nobody is reported as joined or
\* left and no message goes out, also when the stored roster differs from P;
\* and a positive count of at least |P| without usable names keeps P.
C6_UnreliableSilent ==
    /\ (Appended /\ ~playerDataReliable)
       => /\ joinedPlayers = <<>>
          /\ leftPlayers = <<>>
          /\ Len(Messages) = 0
    /\ (pc = "notify" /\ statusResponse # Nil /\ NoUsableNames(statusResponse)
           /\ statusResponse.PlayerCount > 0
           /\ Len(P) <= statusResponse.PlayerCount)
       => ~playerDataReliable /\ currentPlayers = P

\* C6 witness: an unreliable cycle is over, its roster differs from P, and
\* nothing was reported.
C6_Witness ==
    /\ pc = "done"
    /\ ~playerDataReliable
    /\ currentPlayers # P
    /\ Len(Messages) = 0

\* ------------------------------------------------------------------ C7
\* C7: a chat message is sent in a cycle only when the data is reliable and
\* somebody joined or left; it then names exactly those players.
C7_MessageOnlyOnChange ==
    \A i \in 1..Len(Messages) :
        /\ playerDataReliable
        /\ Len(joinedPlayers) > 0 \/ Len(leftPlayers) > 0
        /\ Messages[i].joined = joinedPlayers
        /\ Messages[i].left = leftPlayers

\* C7 witness: a cycle with reliable data and no change has passed its
\* notification step without a message.
C7_Witness ==
    /\ pc = "title"
    /\ playerDataReliable
    /\ joinedPlayers = <<>> /\ leftPlayers = <<>>
    /\ Len(P) > 0
    /\ Len(Messages) = 0

\* ------------------------------------------------------------------ C8
\* The place in the trace of the only event whose op is o.
IndexOf(o) == CHOOSE k \in 1..Len(trace) : trace[k].op = o

\* C8: a cycle attempts exactly one chat-title update, after its append, and
\* the title follows the cycle's online verdict alone; a failed chat message
\* is logged and not sent again, the title update still follows it, and the
\* appended Observation stays as it was appended.
C8_TitleEveryCycle ==
    /\ Len(Titles) = (IF pc = "done" THEN 1 ELSE 0)
    /\ Len(Messages) <= 1
    /\ pc = "done"
       => /\ IndexOf("insertStatus") < IndexOf("updateChatTitle")
          /\ Titles[1].title = (IF online THEN "green" ELSE "red")
          /\ \A k \in 1..Len(trace) :
                (trace[k].op = "sendTelegramMessage" /\ ~trace[k].ok)
                => /\ trace[k + 1] = LogEvent("error sending message")
                   /\ trace[k + 2].op = "updateChatTitle"
    /\ Appended => Appendix = Entry(online, now * 1000, currentPlayers)

\* C8 witness: a cycle whose chat message failed has still updated the title,
\* to the green one, and its Observation is the store's last entry.
C8_Witness ==
    /\ pc = "done"
    /\ Len(Messages) = 1 /\ ~Messages[1].ok
    /\ Len(Titles) = 1 /\ Titles[1].title = "green"
    /\ Appendix = Entry(TRUE, now * 1000, currentPlayers)

\* ------------------------------------------------------------------ C9
\* C9: after a successful probe the cycle's online verdict, the Observation
\* it appends and the title it sets say online exactly when the reported
\* count is above 0: a reachable server with no players counts as offline.
C9_OnlineIffPlayers ==
    /\ (pc = "notify" /\ statusResponse # Nil)
       => /\ online <=> (statusResponse.PlayerCount > 0)
          /\ Appendix.Online <=> (statusResponse.PlayerCount > 0)
    /\ pc = "done" => (Titles[1].title = "green" <=> Appendix.Online)

\* C9 witness: a probe succeeded with named players and a count of 0; the
\* cycle is recorded as offline.
C9_Witness ==
    /\ pc = "notify"
    /\ statusResponse # Nil
    /\ statusResponse.PlayerCount = 0
    /\ Len(currentPlayers) > 0
    /\ ~online
    /\ Appendix.Online = FALSE

\* ----------------------------------------------------------------- C10
\* The running cycle's attempts and sleeps, in order.
RECURSIVE ProbeSteps(_)
ProbeSteps(tr) ==
    IF Len(tr) = 0 THEN <<>>
    ELSE IF Head(tr).op \in {"pingMinecraftServer", "sleep"}
         THEN <<Head(tr)>> \o ProbeSteps(Tail(tr))
         ELSE ProbeSteps(Tail(tr))

\* C10: a cycle probes at least once and at most MAX_RETRIES times, never
\* after a success; a retry delay occurs only right after a failed attempt
\* and is followed by the next attempt, so never after the last one; and the
\* cycle goes on with a nil sample exactly when 3 attempts failed.
C10_RetryPolicy ==
    LET steps == ProbeSteps(trace) IN
    /\ Len(Pings) <= MAX_RETRIES
    /\ Len(Sleeps) <= MAX_RETRIES - 1
    /\ Appended => Len(Pings) >= 1
    /\ \A i \in 1..Len(steps) :
          /\ (steps[i].op = "pingMinecraftServer" /\ steps[i].ok)
             => i = Len(steps)
          /\ steps[i].op = "sleep"
             => /\ i > 1
                /\ steps[i - 1] = PingEvent(FALSE)
                /\ IF i < Len(steps)
                   THEN steps[i + 1].op = "pingMinecraftServer"
                   ELSE pc = "probe"
          /\ (steps[i].op = "pingMinecraftServer" /\ i > 1)
             => steps[i - 1].op = "sleep"
    /\ pc = "notify"
       => (statusResponse = Nil <=> (Len(Pings) = 3 /\ AllPingsFailed))
    /\ Appended
       => (AllPingsFailed <=> Len(Pings) = 3 /\ ~Pings[3].ok)

\* C10 witness: the third attempt succeeded after two failures and two
\* delays, and the cycle reconciled its sample.
C10_Witness ==
    /\ pc = "notify"
    /\ statusResponse # Nil
    /\ Len(Pings) = 3
    /\ ~Pings[1].ok /\ ~Pings[2].ok /\ Pings[3].ok
    /\ Len(Sleeps) = 2

\* ------------------------------------------------------------------ C11
\* The names of the roster s are pairwise different and none is empty.
CleanRoster(s) ==
    /\ \A i \in 1..Len(s) : s[i] # ""
    /\ \A i, j \in 1..Len(s) : i # j => s[i] # s[j]

\* C11: from an empty store, after any check cycles and prunes, the players
\* list of every stored Observation (in memory and in status.json) has no
\* repeated name and no empty name, a roster cut by the count fallback
\* included.
C11_CleanRosters ==
    /\ \A i \in 1..Len(store) : CleanRoster(store[i].Players)
    /\ \A i \in 1..Len(file) : CleanRoster(file[i].Players)

\* C11 witness: the second cycle's sample had a count of 1 and no usable name
\* but an empty one, and the stored roster is the first name of the two the
\* first cycle stored.
C11_Witness ==
    /\ pc = "notify"
    /\ statusResponse # Nil
    /\ statusResponse.PlayerCount = 1
    /\ "" \in Range(statusResponse.Players)
    /\ Len(store) = 2
    /\ Len(store[1].Players) = 2
    /\ store[2].Players = <<store[1].Players[1]>>

\* ------------------------------------------------------------------ C16
\* A step of main's loop that runs cleanupOld (the driver stays idle and the
\* clock is not advanced).
PruneStep == pc = "idle" /\ pc' = "idle" /\ now' = now

\* C16: with cutoff = now - 24h, cleanupOld removes every entry whose
\* LastChecked is below the cutoff and nothing else: right after a prune the
\* store holds exactly the prior entries with LastChecked >=
\* cutoff, each unchanged, in their prior relative order.
C16_PruneExact ==
    [][PruneStep =>
         LET cutoff == now * 1000 - ONE_DAY_IN_MS IN
         store' = SelectSeq(store, LAMBDA e : e.LastChecked >= cutoff)]_vars

\* C16 witness: a prune removed one entry of three and kept two, of which the
\* first is newer than the second and the second lies exactly at the cutoff.
C16_Witness ==
    /\ pc = "idle"
    /\ nPruned = 1
    /\ Len(store) = 2
    /\ store[1].LastChecked > store[2].LastChecked
    /\ store[2].LastChecked = now * 1000 - ONE_DAY_IN_MS
    /\ store[1].Players # store[2].Players

\* ------------------------------------------------------------------ C17
\* l is what the claim lets getLatest return on entries.
IsLatestOf(l, entries) ==
    /\ l = Nil <=> Len(entries) = 0
    /\ l # Nil =>
          /\ \E i \in 1..Len(entries) : entries[i] = l
          /\ \A i \in 1..Len(entries) : entries[i].LastChecked <= l.LastChecked

\* C17: getLatest returns nil if and only if the store is empty, and otherwise
\* a stored entry whose LastChecked is the maximum over the store; the call
\* leaves the store (and status.json) as it was.
C17_Latest ==
    /\ [](pc = "probe" => IsLatestOf(latest, store))
    /\ [][pc = "idle" /\ pc' = "probe" => store' = store /\ file' = file]_vars

\* C17 witness: getLatest returned the middle entry of three, which is newer
\* than the first and than the last.
C17_Witness ==
    /\ pc = "probe"
    /\ Len(store) = 3
    /\ latest = store[2]
    /\ store[1].LastChecked < latest.LastChecked
    /\ store[3].LastChecked < latest.LastChecked

\* ------------------------------------------------------------------ C18
\* A check cycle is in progress.
InCycle == pc \in {"probe", "sleep", "notify", "title", "done"}

\* C18: check cycles and prunes run on one loop.  At most one cycle is in
\* progress, and it is the one started last; a cycle starts only when none is
\* in progress (the previous one returned, its retries included); a prune
\* changes the store only when no cycle is in progress, so from a cycle's read
\* of the latest entry to its append the store still holds what was read.
C18_OneLoop ==
    /\ [](/\ InCycle => nCycles = nCompleted + 1
          /\ pc \in {"boot", "idle"} => nCycles = nCompleted
          /\ pc \in {"probe", "sleep"} => latest = getLatest(store))
    /\ [][/\ nCycles' # nCycles => ~InCycle /\ nCycles = nCompleted
          /\ nPruned' # nPruned => ~InCycle /\ ~InCycle'
          /\ InCycle => Len(store') >= Len(store)]_vars

\* C18 witness: a cycle waits for its second attempt while the entry it read
\* as the latest is past the cutoff, so a prune run now would remove it.
C18_Witness ==
    /\ pc = "sleep"
    /\ latest # Nil
    /\ latest.LastChecked < now * 1000 - ONE_DAY_IN_MS
    /\ store = <<latest>>

\* ------------------------------------------------------------------ C13
\* C13: for the int32 values 0 .. 2^31-1, readVarInt on the bytes written by
\* writeVarInt returns the value written and no error, from a buffer and from
\* a connection alike, and consumes exactly the bytes written, whatever
\* follows them in the source.
C13_RoundTrip ==
    (codec.step = "done" /\ codec.written > 0)
    => /\ codec.value \in 0..MaxInt32
       /\ codec.out.err = ""
       /\ codec.out.value = codec.value
       /\ codec.out.consumed = codec.written
       /\ SubSeq(codec.src, codec.out.consumed + 1, Len(codec.src))
             \in {<<>>, <<255>>}

\* C13 witness: 2^31-1 was written as five bytes and read back from a
\* connection on which another byte follows.
C13_Witness ==
    /\ codec # Nil
    /\ codec.step = "done"
    /\ codec.reader = "conn"
    /\ codec.value = MaxInt32
    /\ codec.src = <<255, 255, 255, 255, 7, 255>>
    /\ codec.out = [value |-> MaxInt32, err |-> "", consumed |-> 5]

\* ------------------------------------------------------------------ C14
\* The first n bytes of src all carry the continuation bit.
AllContinue(src, n) == \A k \in 1..n : src[k] >= 128

\* C14: readVarInt returns an error and the value 0 when the source ends
\* before a byte without the continuation bit (an empty source included), and
\* when five bytes in a row carry the continuation bit; in the second case it
\* has consumed those five bytes, and in no case more than five.
C14_Malformed ==
    codec.step = "done"
    => LET src == codec.src
           out == codec.out
       IN  /\ (Len(src) < 5 /\ AllContinue(src, Len(src)))
              => /\ out.err \in {"EOF", "read failed"}
                 /\ out.value = 0
                 /\ out.consumed = Len(src)
           /\ (Len(src) >= 5 /\ AllContinue(src, 5))
              => /\ out.err = "varint too long"
                 /\ out.value = 0
                 /\ out.consumed = 5
           /\ out.consumed <= 5

\* C14 witness: five bytes with the continuation bit, then a byte without
\* it, in a buffer: the call fails after the fifth and leaves the sixth.
C14_Witness ==
    /\ codec # Nil
    /\ codec.step = "done"
    /\ codec.reader = "buffer"
    /\ codec.src = <<255, 128, 255, 128, 255, 0>>
    /\ codec.out = [value |-> 0, err |-> "varint too long", consumed |-> 5]

\* ------------------------------------------------------------------ C12
\* C12: whatever the server sends, a call of pingMinecraftServer that is
\* over has returned, with a status or with an error (which checkServer's
\* retry loop then absorbs): the call never ends the process.
C12_ProbeNeverFatal ==
    ping.pc \notin {"connect", "length", "body", "parse"}
    => /\ ping.pc = "returned"
       /\ ping.status # Nil <=> ping.err = ""

\* ------------------------------------------------------------------ C15
\* The response length the stream declares: its first varint.
Declared == readVarInt("conn", ping.wire)

\* The response length has been read from the connection.
LengthRead == ping.pc \notin {"connect", "length"} /\ ping.rd > 0

\* C15: when the first varint of the response is a length <= 0 or > 65535,
\* the call returns no status and the invalid-length error, having taken
\* from the connection the bytes of that varint and not one more.
C15_LengthGuard ==
    (LengthRead /\ Declared.err = ""
        /\ (Declared.value <= 0 \/ Declared.value > 65535))
    => /\ ping.pc = "returned"
       /\ ping.status = Nil
       /\ ping.err = "invalid response length"
       /\ ping.rd = Declared.consumed
       /\ ping.reads = 0 /\ ping.totalRead = 0 /\ ping.filled = <<>>

\* C15 witness: the response declared 70000 bytes ahead of a well-formed
\* body; the call failed after the three bytes of the length.
C15_Witness ==
    /\ ping # Nil
    /\ ping.pc = "returned"
    /\ ping.err = "invalid response length"
    /\ ping.responseLen = 70000
    /\ ping.rd = 3
    /\ SubSeq(ping.wire, 4, Len(ping.wire)) = <<0, 3>> \o DocBytes(1)

\* ------------------------------------------------------------------ C19
\* C19: however the transport splits the body over the reads, once the loop
\* is over responseData is the responseLen bytes that follow the length on
\* the stream, and the call ends as it does when one read delivers them all;
\* when the stream stops short of responseLen bytes, the body is never
\* parsed and the call returns no status but the read error.
C19_SplitReads ==
    (LengthRead /\ Declared.err = "" /\ Declared.value \in 1..65535)
    => LET from == Declared.consumed
           body == SubSeq(ping.wire, from + 1, from + Declared.value)
           whole == ParseBody(body)
       IN  IF Len(ping.wire) - from >= Declared.value
           THEN /\ ping.pc # "body"
                   => /\ ping.filled = body
                      /\ ping.totalRead = Declared.value
                      /\ ping.rd = from + Declared.value
                /\ ping.pc = "panicked" => whole.panic
                /\ ping.pc = "returned"
                   => /\ ~whole.panic
                      /\ ping.status = whole.status
                      /\ ping.err = whole.err
           ELSE /\ ping.pc \in {"body", "returned"}
                /\ ping.pc = "returned"
                   => /\ ping.status = Nil
                      /\ ping.err = "failed to read response data"

\* C19 witness: a body of five bytes arrived in three reads and the call
\* returned the status of its document.
C19_Witness ==
    /\ ping # Nil
    /\ ping.pc = "returned"
    /\ ping.totalRead = 5
    /\ ping.reads = 3
    /\ ping.status = ServerStatus(2, <<"a", "b">>)

\* ------------------------------------------------------------------ C20
\* C20: one invocation of the Convex cleanupOld removes every document whose
\* lastChecked is below the cutoff, however many there are: when it has just
\* returned, none is left.
C20_ConvexPruneAll ==
    convex.runs = 1
    => \A t \in ConvexTimes :
          t < convex.now - ONE_DAY_IN_MS => convex.table[t] = 0

\* ------------------------------------------------------------------ C21
\* C21: a check cycle that was started ends, provided every probe attempt
\* and every HTTP call returns (no attempt dies in a panic): checkServer
\* reaches its end after at most 3 attempts and 2 delays, with its entry
\* appended and the title update attempted, and main waits on its tickers
\* again.
C21_Terminates ==
    /\ [](pc = "done"
            => /\ Len(Pings) \in 1..3
               /\ Len(Sleeps) <= 2
               /\ Len(EventsOf(trace, "insertStatus")) = 1
               /\ Len(Titles) = 1)
    /\ [](pc # "crashed")
          => \A n \in 1..MaxCycles :
                (InCycle /\ nCycles = n) ~> (pc = "idle" /\ nCompleted = n)

\* C21 witness: the second cycle has reached its end after three failed
\* attempts and two delays and a failed title update.
C21_Witness ==
    /\ pc = "done"
    /\ nCycles = 2
    /\ Len(Pings) = 3 /\ AllPingsFailed /\ Len(Sleeps) = 2
    /\ Len(Titles) = 1 /\ ~Titles[1].ok

\* ------------------------------------------------------------------ C22
\* A check cycle has returned and none has been started since (a cycle
\* that dies in a panic has read the latest entry, and nothing more).
CycleEnded == hist # Nil /\ pc = "idle"

\* C22: the previous roster a check cycle uses is the roster the cycle
\* before it appended (for the first cycle: the roster appended last to the
\* store it starts on, the empty roster on an empty store), whatever cycles
\* and prunes came before and with timestamps of whole seconds taken from a
\* clock that never steps back.
C22_PreviousIsPreceding ==
    CycleEnded => PreviousPlayers(latest) = hist.expected

\* ------------------------------------------------------------------ C23
\* The names announced in the chat by the cycle that has just ended.
AnnouncedJoined == IF hist.sent THEN Range(joinedPlayers) ELSE {}
AnnouncedLeft == IF hist.sent THEN Range(leftPlayers) ELSE {}

\* C23 as stated: from an empty store on, the join and leave announcements
\* of a name alternate and begin with a join (no second join without a leave
\* in between, no leave unless the name's latest announcement is a join).
C23_StrictAlternation ==
    (CycleEnded /\ hist.fresh)
        => /\ \A x \in AnnouncedJoined : hist.annBefore[x] # "joined"
           /\ \A x \in AnnouncedLeft : hist.annBefore[x] = "joined"

\* C23, amended: from an empty store on, a cycle announces names only when
\* its player data are reliable; it announces as joined exactly the names of
\* the roster it stores that are not in the previous roster it read, and as
\* left exactly the names of that previous roster that are not in the roster
\* it stores; a name announced as left has been announced as joined in an
\* earlier cycle.  Between two join announcements of a name there need not
\* be a leave announcement.
C23_Announcements ==
    (CycleEnded /\ hist.fresh)
        => /\ hist.sent => playerDataReliable
           /\ playerDataReliable
                 => /\ AnnouncedJoined
                         = Range(currentPlayers) \ Range(PreviousPlayers(latest))
                    /\ AnnouncedLeft
                         = Range(PreviousPlayers(latest)) \ Range(currentPlayers)
           /\ \A x \in AnnouncedLeft : hist.annBefore[x] # "none"

\* A name is announced as joined twice in a row, by a cycle that read the
\* roster of the cycle before it: the count-only sample in between dropped
\* the name from the roster without an announcement.
C23_Witness ==
    /\ CycleEnded /\ hist.fresh
    /\ PreviousPlayers(latest) = hist.expected
    /\ \E x \in AnnouncedJoined : hist.annBefore[x] = "joined"
    /\ AnnouncedLeft = {}

\* ------------------------------------------------------------------ C24
\* The document has a numeric players.online.
CarriesCount(doc) == Get(Get(doc, "players"), "online").t = "number"

\* The document's players.sample has an entry with a non-empty string name.
CarriesUsableName(doc) ==
    LET sample == Get(Get(doc, "players"), "sample") IN
    /\ sample.t = "array"
    /\ \E k \in 1..Len(sample.v) :
          LET name == Get(sample.v[k], "name") IN
          name.t = "string" /\ name.v # ""

\* The accepted documents without a count and without a usable name.
BareDocs ==
    {i \in CycleDocs : ~CarriesCount(Docs[i]) /\ ~CarriesUsableName(Docs[i])}

\* C24: a sample of a reachable server that carries no player count and no
\* usable name is reconciled like one that reports a count of 0: the roster
\* is empty, the data are reliable, the server is recorded as not online,
\* nobody joined and every member of the previous roster is reported as
\* left (in a chat message when there is such a member).
C24_NoCountIsZero ==
    (CycleEnded /\ hist.doc \in BareDocs)
        => /\ currentPlayers = <<>>
           /\ playerDataReliable
           /\ ~online
           /\ store[Len(store)].Players = <<>>
           /\ ~store[Len(store)].Online
           /\ joinedPlayers = <<>>
           /\ leftPlayers = PreviousPlayers(latest)
           /\ hist.sent <=> Len(PreviousPlayers(latest)) > 0
           /\ [players |-> currentPlayers, reliable |-> playerDataReliable]
                = ReachableSample(PreviousPlayers(latest),
                                  ServerStatus(0, <<>>))

\* A sample whose only player entries are unusable arrives when two players
\* are on the roster: both are announced as left.
C24_Witness ==
    /\ CycleEnded
    /\ hist.doc \in BareDocs
    /\ CarriesUsableName(Docs[hist.doc]) = FALSE
    /\ Get(Get(Docs[hist.doc], "players"), "sample").t = "array"
    /\ leftPlayers = <<"a", "b">>
    /\ hist.sent

\* ------------------------------------------------------------------ C25
\* The names a document's sample yields, without empty names and repeats.
NamedRoster(doc) == DedupNames(CycleResponse(doc).Players)

\* The cycle that has just ended and the one before it obtained the same
\* reliable result: both the same named sample, both a count of 0 without a
\* usable name, or both no response.
SameReliableResult ==
    /\ CycleEnded
    /\ hist.prevDoc >= 0
    /\ \/ hist.doc = 0 /\ hist.prevDoc = 0
       \/ /\ hist.doc # 0 /\ hist.prevDoc # 0
          /\ NamedRoster(hist.doc) = NamedRoster(hist.prevDoc)
          /\ \/ Len(NamedRoster(hist.doc)) > 0
             \/ /\ CycleResponse(hist.doc).PlayerCount = 0
                /\ CycleResponse(hist.prevDoc).PlayerCount = 0

\* C25: when two consecutive check cycles obtain the same reliable result,
\* the second one computes joined = left = [], sends no chat message and
\* stores the roster the first one stored.
C25_Idempotent ==
    SameReliableResult
        => /\ joinedPlayers = <<>>
           /\ leftPlayers = <<>>
           /\ ~hist.sent
           /\ currentPlayers = hist.expected

====
